---- MODULE Spec2Model ----
(***************************************************************************)
(* Model of src/extension.js: the three editor commands switchFiles,       *)
(* addToDuneWorkspace and promoteCorrectedFiles.                            *)
(*                                                                         *)
(* Strings are sequences of text fragments (mostly single characters), so  *)
(* that endsWith, replace, trim and split are computed as JavaScript       *)
(* computes them.  Each command is a state machine whose steps are the     *)
(* code between two awaits.                                                *)
(***************************************************************************)
EXTENDS Naturals, Sequences, FiniteSets

(***************************************************************************)
(* Bounds of the model.                                                    *)
(***************************************************************************)
\* longest source path of switchFiles, in segments of PathSegments
MaxSegs == 4
\* number of addToDuneWorkspace invocations that may be in flight
NumRuns == 2
\* longest diagnostic output of `dune promotion list`, in fragments
MaxStderrLen == 4

(***************************************************************************)
(* JavaScript values.                                                      *)
(***************************************************************************)
\* null / undefined, and a present value
None == [some |-> FALSE, val |-> <<>>]
Some(x) == [some |-> TRUE, val |-> x]

\* string literals of the source
DotMl == <<".", "m", "l">>
DotMli == <<".", "m", "l", "i">>
IntfMl == <<"_", "i", "n", "t", "f", ".", "m", "l">>

\* String.prototype.endsWith
EndsWith(s, suf) ==
    /\ Len(s) >= Len(suf)
    /\ SubSeq(s, Len(s) - Len(suf) + 1, Len(s)) = suf

\* String.prototype.indexOf, 1-based; 0 when pat does not occur
IndexOf(s, pat) ==
    LET hits == {i \in 1..(Len(s) + 1) :
                    /\ i + Len(pat) - 1 <= Len(s)
                    /\ SubSeq(s, i, i + Len(pat) - 1) = pat}
    IN IF hits = {} THEN 0 ELSE CHOOSE i \in hits : \A j \in hits : i <= j

\* String.prototype.replace with a string pattern: the FIRST occurrence only
Replace(s, pat, rep) ==
    LET i == IndexOf(s, pat)
    IN IF i = 0 THEN s
       ELSE SubSeq(s, 1, i - 1) \o rep \o SubSeq(s, i + Len(pat), Len(s))

(***************************************************************************)
(* switchFiles                                                             *)
(***************************************************************************)
\* fileExists(filePath): fs.access succeeds
fileExists(fs, filePath) == filePath \in fs

MsgNoEditor == <<"No active editor found">>
MsgNoMl(currentFile) == <<"No corresponding .ml file found for ">> \o currentFile
MsgNeither(currentFile) == <<"Neither _intf.ml nor .mli file found for ">> \o currentFile
MsgNotOcaml == <<"Not an OCaml implementation or interface file">>

\* lines 54-60: the final existence check and the return
FinalCheck(fs, targetFile, errorMessage) ==
    IF ~fileExists(fs, targetFile)
    THEN [target |-> None, errors |-> <<errorMessage>>]
    ELSE [target |-> Some(targetFile), errors |-> <<>>]

\* lines 35-48: the .ml branch, first _intf.ml and then .mli
MlBranch(fs, currentFile) ==
    LET errorMessage == MsgNeither(currentFile)
        first == Replace(currentFile, DotMl, IntfMl)
        second == Replace(currentFile, DotMl, DotMli)
    IN IF ~fileExists(fs, first)
       THEN IF ~fileExists(fs, second)
            THEN [target |-> None, errors |-> <<errorMessage>>]
            ELSE FinalCheck(fs, second, errorMessage)
       ELSE FinalCheck(fs, first, errorMessage)

\* switchOcamlFile(activeEditor) on filesystem fs: the value returned and the
\* error messages shown.  activeEditor is None or Some(fsPath).
switchOcamlFile(fs, activeEditor) ==
    IF ~activeEditor.some
    THEN [target |-> None, errors |-> <<MsgNoEditor>>]
    ELSE LET currentFile == activeEditor.val
         IN IF EndsWith(currentFile, IntfMl)
            THEN FinalCheck(fs, Replace(currentFile, IntfMl, DotMl), MsgNoMl(currentFile))
            ELSE IF EndsWith(currentFile, DotMli)
            THEN FinalCheck(fs, Replace(currentFile, DotMli, DotMl), MsgNoMl(currentFile))
            ELSE IF EndsWith(currentFile, DotMl)
            THEN MlBranch(fs, currentFile)
            ELSE [target |-> None, errors |-> <<MsgNotOcaml>>]

\* the pieces source paths are built from
PathSegments == {<<"a">>, <<"/">>, DotMl, DotMli, IntfMl}

RECURSIVE Concats(_)
Concats(n) ==
    IF n = 0 THEN {<<>>}
    ELSE LET prev == Concats(n - 1)
         IN prev \cup {p \o s : p \in prev, s \in PathSegments}

SourcePaths == Concats(MaxSegs) \ {<<>>}

\* the path with its trailing suffix suf replaced by rep, all else unchanged
ReplaceSuffix(s, suf, rep) == SubSeq(s, 1, Len(s) - Len(suf)) \o rep

SuffixRules == {<<IntfMl, DotMl>>, <<DotMli, DotMl>>, <<DotMl, IntfMl>>, <<DotMl, DotMli>>}

\* the files whose existence can matter to the resolution of path p
Counterparts(p) ==
    {Replace(p, r[1], r[2]) : r \in SuffixRules}
    \cup {ReplaceSuffix(p, r[1], r[2]) : r \in {q \in SuffixRules : EndsWith(p, q[1])}}

VARIABLES
    swPc,        \* switchFiles: "idle", "resolving", "resolved", "done"
    swEditor,    \* vscode.window.activeTextEditor: None or Some(fsPath)
    swFs,        \* the files that exist
    swTarget,    \* what switchOcamlFile returned
    swErrors,    \* error messages shown by switchFiles
    swShown      \* the document shown: None or Some(path)

swVars == <<swPc, swEditor, swFs, swTarget, swErrors, swShown>>

InitSwitch ==
    /\ swPc = "idle"
    /\ swEditor = None
    /\ swFs = {}
    /\ swTarget = None
    /\ swErrors = <<>>
    /\ swShown = None

\* the user triggers the command with no editor open
TriggerSwitchNoEditor ==
    /\ swPc = "idle"
    /\ swPc' = "resolving"
    /\ swEditor' = None
    /\ swFs' = {}
    /\ UNCHANGED <<swTarget, swErrors, swShown>>

\* the user triggers the command in an editor on some path
TriggerSwitch ==
    /\ swPc = "idle"
    /\ \E p \in SourcePaths : \E fs \in SUBSET Counterparts(p) :
          /\ swEditor' = Some(p)
          /\ swFs' = fs
    /\ swPc' = "resolving"
    /\ UNCHANGED <<swTarget, swErrors, swShown>>

\* line 227: await switchOcamlFile(vscode.window.activeTextEditor)
ResolveSwitch ==
    /\ swPc = "resolving"
    /\ LET r == switchOcamlFile(swFs, swEditor)
       IN /\ swTarget' = r.target
          /\ swErrors' = swErrors \o r.errors
    /\ swPc' = "resolved"
    /\ UNCHANGED <<swEditor, swFs, swShown>>

\* lines 228-235: open and show the target; a failure is caught and reported
OpenTarget ==
    /\ swPc = "resolved"
    /\ swPc' = "done"
    /\ IF swTarget.some
       THEN \/ /\ swShown' = swTarget
               /\ UNCHANGED swErrors
            \/ /\ swErrors' = Append(swErrors, <<"Failed to open file: ">> \o swTarget.val)
               /\ UNCHANGED swShown
       ELSE UNCHANGED <<swErrors, swShown>>
    /\ UNCHANGED <<swEditor, swFs, swTarget>>

(***************************************************************************)
(* addToDuneWorkspace                                                      *)
(***************************************************************************)
Runs == 1..NumRuns

\* directories as sequences of names; workspaceFolders[0].uri.fsPath
WorkspaceRoot == <<"ws">>
\* the directories a user can select (context menu or directory picker)
SelectableDirs == {<<"ws", "lib", "x">>, <<"ws">>, <<"other">>}
\* the items of the alias quick pick, line 107
AliasTypes == {<<"runtest">>, <<"default">>}

\* length of the longest common prefix of two directory sequences
RECURSIVE CommonPrefixLen(_, _)
CommonPrefixLen(a, b) ==
    IF a = <<>> \/ b = <<>> \/ Head(a) # Head(b) THEN 0
    ELSE 1 + CommonPrefixLen(Tail(a), Tail(b))

\* Array.prototype.join("/") into a string
RECURSIVE JoinSlash(_)
JoinSlash(names) ==
    IF names = <<>> THEN <<>>
    ELSE IF Len(names) = 1 THEN <<names[1]>>
    ELSE <<names[1], "/">> \o JoinSlash(Tail(names))

\* path.relative(from, to): one ".." for each name of `from` below the common
\* prefix, then the names of `to` below it
Relative(from, to) ==
    LET k == CommonPrefixLen(from, to)
        ups == [i \in 1..(Len(from) - k) |-> ".."]
    IN JoinSlash(ups \o SubSeq(to, k + 1, Len(to)))

\* lines 124-128: the stanza text
Stanza(aliasType, relativePath) ==
    <<"(alias\n  (name ">> \o aliasType
    \o <<")\n  (deps (alias_rec ">> \o relativePath \o <<"/">> \o aliasType
    \o <<"))\n)\n">>

\* line 131: the text handed to fs.writeFile (a variant that appends)
AppendedContent(stanza, content) == content \o stanza

\* line 131: the text handed to fs.writeFile
NewContent(stanza, content) == stanza \o content

\* lines 111-116 (a variant without the early return)
AfterAliasPickNoReturn(aliasType) == "exists"

\* lines 111-116: return when nothing was picked, else go on to the manifest
AfterAliasPick(aliasType) == IF ~aliasType.some THEN "done" ELSE "exists"

MsgNoWorkspace == [kind |-> "error", text |-> <<"No workspace opened">>]
MsgNoActiveEditor == [kind |-> "error", text |-> <<"No active editor">>]
MsgAdded(relativePath, aliasType) ==
    [kind |-> "info",
     text |-> <<"Successfully added ">> \o relativePath \o <<" to dune workspace as ">>
              \o aliasType \o <<" with default action">>]
MsgDuneFailed == [kind |-> "error", text |-> <<"Failed to update dune file: ">>]

\* the manifest file <root>/dune before any command has run
InitialManifests ==
    {[exists |-> FALSE, data |-> <<>>],
     [exists |-> TRUE, data |-> <<>>],
     [exists |-> TRUE, data |-> <<"(rule)\n">>]}

VARIABLES
    manifest,    \* the file <root>/dune: [exists, data]
    manifest0,   \* the file before any command has run
    dPc,         \* per run: "idle", "dirPicker", "aliasPicker", "exists", "read", "write", "done"
    dPath,       \* per run: relativePath
    dAlias,      \* per run: aliasType, None or Some(text)
    dContent,    \* per run: content
    dMsgs,       \* per run: the notifications shown
    dOutcome,    \* per run: how the run ended ("" while running)
    dFsOps,      \* per run: the filesystem calls made on <root>/dune
    dSeen        \* per run: the manifest content when the run looked at it

dVars == <<manifest, manifest0, dPc, dPath, dAlias, dContent, dMsgs, dOutcome, dFsOps, dSeen>>

InitDune ==
    /\ manifest \in InitialManifests
    /\ manifest0 = manifest
    /\ dPc = [r \in Runs |-> "idle"]
    /\ dPath = [r \in Runs |-> <<>>]
    /\ dAlias = [r \in Runs |-> None]
    /\ dContent = [r \in Runs |-> <<>>]
    /\ dMsgs = [r \in Runs |-> <<>>]
    /\ dOutcome = [r \in Runs |-> ""]
    /\ dFsOps = [r \in Runs |-> {}]
    /\ dSeen = [r \in Runs |-> <<>>]

\* a return or the end of the function, with the notification shown before it
DuneEnd(r, outcome, msgs) ==
    /\ dPc' = [dPc EXCEPT ![r] = "done"]
    /\ dOutcome' = [dOutcome EXCEPT ![r] = outcome]
    /\ dMsgs' = [dMsgs EXCEPT ![r] = @ \o msgs]

\* lines 65-69: no workspace folder
DuneNoWorkspace(r) ==
    /\ dPc[r] = "idle"
    /\ DuneEnd(r, "noWorkspace", <<MsgNoWorkspace>>)
    /\ UNCHANGED <<manifest, manifest0, dPath, dAlias, dContent, dFsOps, dSeen>>

\* lines 72-76: no active editor
DuneNoEditor(r) ==
    /\ dPc[r] = "idle"
    /\ DuneEnd(r, "noEditor", <<MsgNoActiveEditor>>)
    /\ UNCHANGED <<manifest, manifest0, dPath, dAlias, dContent, dFsOps, dSeen>>

\* lines 79-81, 103-109: called with a URI (context menu); the alias pick opens
DuneStartWithUri(r) ==
    /\ dPc[r] = "idle"
    /\ \E selectedPath \in SelectableDirs :
          dPath' = [dPath EXCEPT ![r] = Relative(WorkspaceRoot, selectedPath)]
    /\ dPc' = [dPc EXCEPT ![r] = "aliasPicker"]
    /\ UNCHANGED <<manifest, manifest0, dAlias, dContent, dMsgs, dOutcome, dFsOps, dSeen>>

\* lines 82-95: called without a URI; the directory picker opens
DuneStartPicker(r) ==
    /\ dPc[r] = "idle"
    /\ dPc' = [dPc EXCEPT ![r] = "dirPicker"]
    /\ UNCHANGED <<manifest, manifest0, dPath, dAlias, dContent, dMsgs, dOutcome, dFsOps, dSeen>>

\* lines 97-99: the directory picker was dismissed
DuneDirCancelled(r) ==
    /\ dPc[r] = "dirPicker"
    /\ DuneEnd(r, "dirCancelled", <<>>)
    /\ UNCHANGED <<manifest, manifest0, dPath, dAlias, dContent, dFsOps, dSeen>>

\* lines 101-109: a directory was picked; the alias pick opens
DuneDirPicked(r) ==
    /\ dPc[r] = "dirPicker"
    /\ \E selectedPath \in SelectableDirs :
          dPath' = [dPath EXCEPT ![r] = Relative(WorkspaceRoot, selectedPath)]
    /\ dPc' = [dPc EXCEPT ![r] = "aliasPicker"]
    /\ UNCHANGED <<manifest, manifest0, dAlias, dContent, dMsgs, dOutcome, dFsOps, dSeen>>

\* lines 106-121: showQuickPick resolves with an item or undefined; with an item
\* the run goes on to fileExists(rootDunePath)
DuneAliasPicked(r) ==
    /\ dPc[r] = "aliasPicker"
    /\ \E aliasType \in {None} \cup {Some(a) : a \in AliasTypes} :
          /\ dAlias' = [dAlias EXCEPT ![r] = aliasType]
          /\ dPc' = [dPc EXCEPT ![r] = AfterAliasPick(aliasType)]
          /\ dOutcome' = [dOutcome EXCEPT ![r] =
                 IF AfterAliasPick(aliasType) = "done" THEN "aliasCancelled" ELSE @]
    /\ UNCHANGED <<manifest, manifest0, dPath, dContent, dMsgs, dFsOps, dSeen>>

\* line 121: fileExists resolves; when the file is absent content is '' and the
\* run goes on to fs.writeFile, else to fs.readFile
DuneExistsDone(r) ==
    /\ dPc[r] = "exists"
    /\ dFsOps' = [dFsOps EXCEPT ![r] = @ \cup {"access"}]
    /\ IF manifest.exists
       THEN /\ dPc' = [dPc EXCEPT ![r] = "read"]
            /\ UNCHANGED <<dContent, dSeen>>
       ELSE /\ dPc' = [dPc EXCEPT ![r] = "write"]
            /\ dContent' = [dContent EXCEPT ![r] = <<>>]
            /\ dSeen' = [dSeen EXCEPT ![r] = <<>>]
    /\ UNCHANGED <<manifest, manifest0, dPath, dAlias, dMsgs, dOutcome>>

\* line 121: fs.readFile resolves with the file's text
DuneReadDone(r) ==
    /\ dPc[r] = "read"
    /\ manifest.exists
    /\ dFsOps' = [dFsOps EXCEPT ![r] = @ \cup {"read"}]
    /\ dContent' = [dContent EXCEPT ![r] = manifest.data]
    /\ dSeen' = [dSeen EXCEPT ![r] = manifest.data]
    /\ dPc' = [dPc EXCEPT ![r] = "write"]
    /\ UNCHANGED <<manifest, manifest0, dPath, dAlias, dMsgs, dOutcome>>

\* lines 121, 133-135: fs.readFile rejects; the catch reports it
DuneReadFailed(r) ==
    /\ dPc[r] = "read"
    /\ dFsOps' = [dFsOps EXCEPT ![r] = @ \cup {"read"}]
    /\ DuneEnd(r, "error", <<MsgDuneFailed>>)
    /\ UNCHANGED <<manifest, manifest0, dPath, dAlias, dContent, dSeen>>

\* lines 131-132: fs.writeFile resolves
DuneWriteDone(r) ==
    /\ dPc[r] = "write"
    /\ dFsOps' = [dFsOps EXCEPT ![r] = @ \cup {"write"}]
    /\ manifest' = [exists |-> TRUE,
                    data |-> NewContent(Stanza(dAlias[r].val, dPath[r]), dContent[r])]
    /\ DuneEnd(r, "success", <<MsgAdded(dPath[r], dAlias[r].val)>>)
    /\ UNCHANGED <<manifest0, dPath, dAlias, dContent, dSeen>>

\* lines 131, 133-135: fs.writeFile rejects, before it opened the file (the file
\* is as it was) or after it truncated it; the catch reports it
DuneWriteFailed(r) ==
    /\ dPc[r] = "write"
    /\ dFsOps' = [dFsOps EXCEPT ![r] = @ \cup {"write"}]
    /\ manifest' \in {manifest, [exists |-> TRUE, data |-> <<>>]}
    /\ DuneEnd(r, "error", <<MsgDuneFailed>>)
    /\ UNCHANGED <<manifest0, dPath, dAlias, dContent, dSeen>>

(***************************************************************************)
(* promoteCorrectedFiles                                                   *)
(***************************************************************************)
\* line 194: the description of the "promote all" entry
PromoteAllText == "Accept all pending promotions"
\* the fragments the diagnostic output of `dune promotion list` is made of
StderrAlphabet == {"a", "/", " ", "\n", PromoteAllText}
Whitespace == {" ", "\n", "\t", "\r"}

\* all strings over alphabet of length at most n
RECURSIVE StringsUpTo(_, _)
StringsUpTo(alphabet, n) ==
    IF n = 0 THEN {<<>>}
    ELSE LET prev == StringsUpTo(alphabet, n - 1)
         IN prev \cup {Append(t, c) : t \in prev, c \in alphabet}

\* String.prototype.trimStart
RECURSIVE TrimStart(_)
TrimStart(s) ==
    IF s # <<>> /\ Head(s) \in Whitespace THEN TrimStart(Tail(s)) ELSE s

\* String.prototype.trimEnd
RECURSIVE TrimEnd(_)
TrimEnd(s) ==
    IF s # <<>> /\ s[Len(s)] \in Whitespace THEN TrimEnd(SubSeq(s, 1, Len(s) - 1)) ELSE s

\* String.prototype.trim
Trim(s) == TrimEnd(TrimStart(s))

\* String.prototype.split('\n'): every piece between line breaks, empty ones too
RECURSIVE SplitLines(_)
SplitLines(s) ==
    LET i == IndexOf(s, <<"\n">>)
    IN IF i = 0 THEN <<s>>
       ELSE <<SubSeq(s, 1, i - 1)>> \o SplitLines(SubSeq(s, i + 1, Len(s)))

\* path.basename: trailing separators dropped, then what follows the last one
RECURSIVE Basename(_)
Basename(s) ==
    IF s # <<>> /\ s[Len(s)] = "/" THEN Basename(SubSeq(s, 1, Len(s) - 1))
    ELSE LET seps == {i \in 1..Len(s) : s[i] = "/"}
         IN IF seps = {} THEN s
            ELSE SubSeq(s, (CHOOSE i \in seps : \A j \in seps : j <= i) + 1, Len(s))

\* the text `${error}` of the exec error
ErrorText(error) == IF error THEN <<"Error: Command failed">> ELSE <<"null">>

MsgListError(error, stderr) ==
    [kind |-> "error",
     text |-> <<"dune promotion list error: ">> \o ErrorText(error) \o <<" ">> \o stderr]
MsgNoCorrected == [kind |-> "info", text |-> <<"No .corrected files found">>]
MsgPromoteFailed == [kind |-> "error", text |-> <<"Failed to promote files">>]
MsgPromoteSuccess == [kind |-> "info", text |-> <<"Promotion success">>]

\* lines 165-171 (a variant that tests stderr without trimming it)
getPromotionCandidatesNoTrim(error, stderr) ==
    IF error \/ stderr = <<>>
    THEN [settled |-> "resolved", value |-> <<>>, msgs |-> <<MsgListError(error, stderr)>>]
    ELSE LET lines == SplitLines(Trim(stderr))
         IN [settled |-> "resolved",
             value |-> [i \in 1..Len(lines) |-> Trim(lines[i])],
             msgs |-> <<>>]

\* lines 161-174: the callback of exec('dune promotion list'): how the promise
\* is settled, with what value, and the notifications shown
getPromotionCandidates(error, stderr) ==
    IF error \/ Trim(stderr) = <<>>
    THEN [settled |-> "resolved", value |-> <<>>, msgs |-> <<MsgListError(error, stderr)>>]
    ELSE LET lines == SplitLines(Trim(stderr))
         IN [settled |-> "resolved",
             value |-> [i \in 1..Len(lines) |-> Trim(lines[i])],
             msgs |-> <<>>]

\* lines 191-204: the entries of the quick pick
promotionOptions(candidates) ==
    <<[label |-> <<"$(check-all) Promote all files">>,
       description |-> <<PromoteAllText>>,
       filePath |-> None,
       isPromoteAll |-> TRUE]>>
    \o [i \in 1..Len(candidates) |->
          [label |-> Basename(candidates[i]),
           description |-> candidates[i],
           filePath |-> Some(candidates[i]),
           isPromoteAll |-> FALSE]]

\* line 214: the argument of executeDunePromote
PromoteArg(description) ==
    IF description = <<PromoteAllText>> THEN None ELSE Some(description)

BaseCmd == <<"dune promotion apply">>

\* lines 141-144: `file ? ... : baseCmd`; null and '' are falsy
FullCmd(file) ==
    IF file.some /\ file.val # <<>>
    THEN BaseCmd \o <<" ", "\"">> \o file.val \o <<"\"">>
    ELSE BaseCmd

\* line 216: result.success, where result is the stdout string: a string has no
\* such property, so the value is undefined
ResultSuccess(result) == None

VARIABLES
    pPc,          \* "idle", "listing", "listed", "picking", "applying", "done"
    pListError,   \* the listing's exec error (TRUE: it failed)
    pStderr,      \* the listing's diagnostic output
    pListPromise, \* the promise of getPromotionCandidates: "none" (not created),
                  \* "pending", "resolved", "rejected"
    pCandidates,  \* candidates
    pPick,        \* the quick pick: "none" (not resolved yet), "dismissed", "entry"
    pChoice,      \* index of the picked entry of promotionOptions (0: none)
    pCmd,         \* the apply invocation issued: None or Some(fullCmd)
    pApply,       \* how the apply invocation ended: "none", "ok", "failed"
    pMsgs,        \* the notifications shown
    pFault        \* the command's promise was rejected (nothing caught the error)

pVars == <<pPc, pListError, pStderr, pListPromise, pCandidates, pPick, pChoice, pCmd, pApply,
           pMsgs, pFault>>

InitPromote ==
    /\ pPc = "idle"
    /\ pListError = FALSE
    /\ pStderr = <<>>
    /\ pListPromise = "none"
    /\ pCandidates = <<>>
    /\ pPick = "none"
    /\ pChoice = 0
    /\ pCmd = None
    /\ pApply = "none"
    /\ pMsgs = <<>>
    /\ pFault = FALSE

\* lines 177-181: no workspace folder
PromoteNoWorkspace ==
    /\ pPc = "idle"
    /\ pPc' = "done"
    /\ pMsgs' = Append(pMsgs, MsgNoWorkspace)
    /\ UNCHANGED <<pListError, pStderr, pListPromise, pCandidates, pPick, pChoice, pCmd, pApply, pFault>>

\* lines 183-184, 162-164: exec('dune promotion list') is started
PromoteStartList ==
    /\ pPc = "idle"
    /\ pPc' = "listing"
    /\ pListPromise' = "pending"
    /\ UNCHANGED <<pListError, pStderr, pCandidates, pPick, pChoice, pCmd, pApply,
                   pMsgs, pFault>>

\* lines 165-172: the listing ends and its callback runs
PromoteListDone ==
    /\ pPc = "listing"
    /\ \E error \in BOOLEAN : \E stderr \in StringsUpTo(StderrAlphabet, MaxStderrLen) :
          LET r == getPromotionCandidates(error, stderr)
          IN /\ pListError' = error
             /\ pStderr' = stderr
             /\ pListPromise' = r.settled
             /\ pCandidates' = r.value
             /\ pMsgs' = pMsgs \o r.msgs
    /\ pPc' = "listed"
    /\ UNCHANGED <<pPick, pChoice, pCmd, pApply, pFault>>

\* lines 184-189: the await resumes with no candidates
PromoteNothing ==
    /\ pPc = "listed"
    /\ pListPromise = "resolved"
    /\ Len(pCandidates) = 0
    /\ pPc' = "done"
    /\ pMsgs' = Append(pMsgs, MsgNoCorrected)
    /\ UNCHANGED <<pListError, pStderr, pListPromise, pCandidates, pPick, pChoice, pCmd, pApply, pFault>>

\* lines 191-210: the await resumes with candidates; the quick pick opens
PromoteShowPick ==
    /\ pPc = "listed"
    /\ pListPromise = "resolved"
    /\ Len(pCandidates) # 0
    /\ pPc' = "picking"
    /\ UNCHANGED <<pListError, pStderr, pListPromise, pCandidates, pPick, pChoice, pCmd, pApply,
                   pMsgs, pFault>>

\* lines 206-212: the quick pick is dismissed: choice is undefined and
\* choice.description throws a TypeError that nothing catches
PromoteDismissed ==
    /\ pPc = "picking"
    /\ pPick' = "dismissed"
    /\ pFault' = TRUE
    /\ pPc' = "done"
    /\ UNCHANGED <<pListError, pStderr, pListPromise, pCandidates, pChoice, pCmd, pApply, pMsgs>>

\* lines 206-215, 139-151: an entry is picked and the apply invocation is issued
PromotePicked ==
    /\ pPc = "picking"
    /\ \E i \in 1..Len(promotionOptions(pCandidates)) :
          LET choice == promotionOptions(pCandidates)[i]
              arg == PromoteArg(choice.description)
          IN /\ pPick' = "entry"
             /\ pChoice' = i
             /\ pCmd' = Some(FullCmd(arg))
    /\ pPc' = "applying"
    /\ UNCHANGED <<pListError, pStderr, pListPromise, pCandidates, pApply, pMsgs, pFault>>

\* lines 151-155, 215-220: the apply invocation succeeds with some stdout
PromoteApplyOk ==
    /\ pPc = "applying"
    /\ \E stdout \in {<<>>, <<"Promoting a.corrected">>} :
          pMsgs' = pMsgs
                   \o (IF ~ResultSuccess(stdout).some THEN <<MsgPromoteFailed>> ELSE <<>>)
                   \o <<MsgPromoteSuccess>>
    /\ pApply' = "ok"
    /\ pPc' = "done"
    /\ UNCHANGED <<pListError, pStderr, pListPromise, pCandidates, pPick, pChoice, pCmd, pFault>>

\* lines 151-153, 215: the apply invocation fails: the promise is rejected, the
\* await throws and nothing catches it
PromoteApplyFailed ==
    /\ pPc = "applying"
    /\ pApply' = "failed"
    /\ pFault' = TRUE
    /\ pPc' = "done"
    /\ UNCHANGED <<pListError, pStderr, pListPromise, pCandidates, pPick, pChoice, pCmd, pMsgs>>

(***************************************************************************)
(* The specifications: one per command, and the three together.           *)
(***************************************************************************)
vars == <<swVars, dVars, pVars>>

Init == InitSwitch /\ InitDune /\ InitPromote

NextSwitch ==
    \/ TriggerSwitchNoEditor /\ UNCHANGED <<dVars, pVars>>
    \/ TriggerSwitch /\ UNCHANGED <<dVars, pVars>>
    \/ ResolveSwitch /\ UNCHANGED <<dVars, pVars>>
    \/ OpenTarget /\ UNCHANGED <<dVars, pVars>>

NextDune ==
    \E r \in Runs :
        \/ DuneNoWorkspace(r) /\ UNCHANGED <<swVars, pVars>>
        \/ DuneNoEditor(r) /\ UNCHANGED <<swVars, pVars>>
        \/ DuneStartWithUri(r) /\ UNCHANGED <<swVars, pVars>>
        \/ DuneStartPicker(r) /\ UNCHANGED <<swVars, pVars>>
        \/ DuneDirCancelled(r) /\ UNCHANGED <<swVars, pVars>>
        \/ DuneDirPicked(r) /\ UNCHANGED <<swVars, pVars>>
        \/ DuneAliasPicked(r) /\ UNCHANGED <<swVars, pVars>>
        \/ DuneExistsDone(r) /\ UNCHANGED <<swVars, pVars>>
        \/ DuneReadDone(r) /\ UNCHANGED <<swVars, pVars>>
        \/ DuneReadFailed(r) /\ UNCHANGED <<swVars, pVars>>
        \/ DuneWriteDone(r) /\ UNCHANGED <<swVars, pVars>>
        \/ DuneWriteFailed(r) /\ UNCHANGED <<swVars, pVars>>

NextPromote ==
    \/ PromoteNoWorkspace /\ UNCHANGED <<swVars, dVars>>
    \/ PromoteStartList /\ UNCHANGED <<swVars, dVars>>
    \/ PromoteListDone /\ UNCHANGED <<swVars, dVars>>
    \/ PromoteNothing /\ UNCHANGED <<swVars, dVars>>
    \/ PromoteShowPick /\ UNCHANGED <<swVars, dVars>>
    \/ PromoteDismissed /\ UNCHANGED <<swVars, dVars>>
    \/ PromotePicked /\ UNCHANGED <<swVars, dVars>>
    \/ PromoteApplyOk /\ UNCHANGED <<swVars, dVars>>
    \/ PromoteApplyFailed /\ UNCHANGED <<swVars, dVars>>

Next == NextSwitch \/ NextDune \/ NextPromote

SpecSwitch == Init /\ [][NextSwitch]_vars
SpecDune == Init /\ [][NextDune]_vars
SpecPromote == Init /\ [][NextPromote]_vars
Spec == Init /\ [][Next]_vars

(***************************************************************************)
(* The claims.                                                             *)
(***************************************************************************)
\* the source path of a resolved switchFiles run
SwResolved == swPc = "resolved" /\ swEditor.some

\* C1: for a path ending in .ml and not in _intf.ml, switchOcamlFile returns
\* the path with its trailing .ml replaced by _intf.ml whenever that file
\* exists, else the path with its trailing .ml replaced by .mli when that one
\* exists, else null with the NoMatch message.
C1_MlResolvesToTrailingCounterpart ==
    (/\ SwResolved
     /\ EndsWith(swEditor.val, DotMl)
     /\ ~EndsWith(swEditor.val, IntfMl))
    => LET intf == ReplaceSuffix(swEditor.val, DotMl, IntfMl)
           mli == ReplaceSuffix(swEditor.val, DotMl, DotMli)
       IN /\ intf \in swFs => swTarget = Some(intf)
          /\ (intf \notin swFs /\ mli \in swFs) => swTarget = Some(mli)
          /\ (intf \notin swFs /\ mli \notin swFs)
                => (swTarget = None /\ swErrors = <<MsgNeither(swEditor.val)>>)

\* C2: for a path ending in _intf.ml or in .mli, switchOcamlFile returns the
\* path with only that trailing suffix replaced by .ml if and only if that file
\* exists, else null with the NoMatch message; it never returns a path that
\* does not exist.
C2_InterfaceResolvesToTrailingMl ==
    (/\ SwResolved
     /\ (EndsWith(swEditor.val, IntfMl) \/ EndsWith(swEditor.val, DotMli)))
    => LET suffix == IF EndsWith(swEditor.val, IntfMl) THEN IntfMl ELSE DotMli
           ml == ReplaceSuffix(swEditor.val, suffix, DotMl)
       IN /\ ml \in swFs => swTarget = Some(ml)
          /\ ml \notin swFs => (swTarget = None /\ swErrors = <<MsgNoMl(swEditor.val)>>)
          /\ swTarget.some => swTarget.val \in swFs

\* C3: when a run's write succeeds, the manifest is exactly the run's stanza
\* followed by the content C the run found (C empty when the file was absent).
C3_ManifestIsStanzaThenPrior ==
    [][\A r \in Runs :
          (dPc[r] = "write" /\ dOutcome'[r] = "success")
          => /\ manifest'.exists
             /\ manifest'.data = Stanza(dAlias[r].val, dPath[r]) \o dSeen[r]]_vars

\* a run has succeeded on a manifest that had content, and the manifest holds
\* its stanza followed by that content
C3_Witness ==
    \E r \in Runs :
        /\ dOutcome[r] = "success"
        /\ dSeen[r] # <<>>
        /\ manifest.data = Stanza(dAlias[r].val, dPath[r]) \o dSeen[r]

\* C4: a run writes only with an alias type of {runtest, default}; a run without
\* a chosen alias type (picker dismissed, or ended before it) makes no
\* filesystem call on the manifest; and the manifest changes only by a write.
C4_NoAliasNoFileAccess ==
    /\ \A r \in Runs : "write" \in dFsOps[r] => dAlias[r] \in {Some(a) : a \in AliasTypes}
    /\ \A r \in Runs : ~dAlias[r].some => dFsOps[r] = {}
    /\ (\A r \in Runs : "write" \notin dFsOps[r]) => manifest = manifest0

\* one run ended at the dismissed alias picker, another wrote the manifest
C4_Witness ==
    \E r, q \in Runs :
        /\ dPc[r] = "done" /\ dOutcome[r] = "aliasCancelled" /\ dFsOps[r] = {}
        /\ dOutcome[q] = "success" /\ dAlias[q].val \in AliasTypes

\* the callback of the listing has run
ListCallbackDone == pListPromise # "none" /\ pPc # "listing"

\* C5: getPromotionCandidates always resolves; when the listing errors or its
\* diagnostic output is empty or whitespace only, it resolves to the empty
\* list and an error notification is shown.
C5_ListingNeverFaults ==
    ListCallbackDone
    => /\ pListPromise = "resolved"
       /\ (pListError \/ Trim(pStderr) = <<>>)
             => /\ pCandidates = <<>>
                /\ \E i \in 1..Len(pMsgs) : pMsgs[i] = MsgListError(pListError, pStderr)

\* the listing succeeded with whitespace-only output
C5_Witness ==
    /\ pPc = "listed"
    /\ ~pListError
    /\ pStderr # <<>>
    /\ Trim(pStderr) = <<>>
    /\ pCandidates = <<>>

NonEmpty(x) == x # <<>>

\* the non-blank lines of s, in order, each trimmed
NonBlankLines(s) ==
    LET lines == SplitLines(s)
    IN SelectSeq([i \in 1..Len(lines) |-> Trim(lines[i])], NonEmpty)

\* C6: when the listing succeeds with non-empty output, the candidates are the
\* non-blank lines of the output, in order, each trimmed; none is empty.
C6_CandidatesAreNonBlankLines ==
    (ListCallbackDone /\ ~pListError /\ Trim(pStderr) # <<>>)
    => /\ pCandidates = NonBlankLines(pStderr)
       /\ \A i \in 1..Len(pCandidates) : pCandidates[i] # <<>>

\* C7: the apply invocation is `dune promotion apply` when the "promote all"
\* entry was picked, and `dune promotion apply "p"` when the entry of candidate
\* p was picked.
C7_TargetIffCandidatePicked ==
    pCmd.some
    => LET choice == promotionOptions(pCandidates)[pChoice]
       IN IF choice.isPromoteAll
          THEN pCmd.val = BaseCmd
          ELSE pCmd.val = BaseCmd \o <<" ", "\"">> \o choice.filePath.val \o <<"\"">>

ShownKind(kind) == \E i \in 1..Len(pMsgs) : pMsgs[i].kind = kind
ShownSuccess == \E i \in 1..Len(pMsgs) : pMsgs[i] = MsgPromoteSuccess

\* C8: a run that reached the apply invocation shows a success notification and
\* no error notification when it succeeded; when it failed, an error
\* notification and no success notification, and the failure is caught.
C8_ApplyOutcomeReported ==
    (pPc = "done" /\ pApply # "none")
    => /\ pApply = "ok" => (ShownSuccess /\ ~ShownKind("error"))
       /\ pApply = "failed" => (ShownKind("error") /\ ~ShownSuccess /\ ~pFault)

\* C9: after all runs have succeeded the manifest holds every run's stanza and,
\* at its end, the original content.
C9_NoStanzaLost ==
    (\A r \in Runs : dOutcome[r] = "success")
    => /\ \A r \in Runs : IndexOf(manifest.data, Stanza(dAlias[r].val, dPath[r])) # 0
       /\ EndsWith(manifest.data, manifest0.data)

\* C10: when the candidate picker is dismissed the command ends with no apply
\* invocation, no success notification and no uncaught fault.
C10_DismissEndsQuietly ==
    (pPc = "done" /\ pPick = "dismissed")
    => (~pCmd.some /\ ~ShownSuccess /\ ~pFault)

====
